---- MODULE Spec2Model ----
(***************************************************************************)
(* A model of json-pkler (src/lib.rs): a recursive-descent JSON parser     *)
(* over a vector of chars.  Offsets are 0-based as in the source; every    *)
(* parse function is an operator computed as the source computes it, and   *)
(* the loops of parse_json_array / parse_json_object are also stepped one  *)
(* iteration per action so that their local variables are states.         *)
(***************************************************************************)
EXTENDS Integers, Sequences, FiniteSets, TLC

VARIABLES
    string,   \* the &str handed to the parser, as a sequence of lexical chunks
    chars,    \* string.chars().collect::<Vec<char>>()
    pc,       \* "idle" | "loop" | "done": position of the running call
    fn,       \* the function that was called ("" while idle)
    from,     \* its `from` argument
    st,       \* its local variables (loop state)
    ret       \* its JSONParseResult once pc = "done"

vars == <<string, chars, pc, fn, from, st, ret>>

----------------------------------------------------------------------------
(* Bounds of the model: the length, in chunks, of the inputs of each family *)

MaxStrToks == 6
MaxNumToks == 5
MaxArrToks == 5
MaxObjToks == 5
MaxJsonToks == 4

----------------------------------------------------------------------------
(* Characters, slices, results                                              *)

Q == "\""
BS == "\\"

\* Option<char>::None of chars.get(i)
NoChar == ""

Get(cs, i) == IF i >= 0 /\ i < Len(cs) THEN cs[i + 1] ELSE NoChar

\* chars[a..b] (half open, 0-based)
Slice(cs, a, b) == SubSeq(cs, a + 1, b)

ParseJSONError(msg) == [msg |-> msg]

Ok(end, val) == [ok |-> TRUE, end |-> end, val |-> val]
\* JSONParseResult<usize>
OkEnd(end) == [ok |-> TRUE, end |-> end]
\* JSONParseResult<JSONValue>
OkValue(val) == [ok |-> TRUE, val |-> val]
Err(e) == [ok |-> FALSE, err |-> e]

MissingEndQuote == ParseJSONError("Missing end quotes for string")
InvalidNumber == ParseJSONError("Invalid number")
ExpectedClosingBracket == ParseJSONError("Expected ']' to end array")
ExpectedClosingBrace == ParseJSONError("Expected '}' to end object")
UnexpectedComma == ParseJSONError("Unexpected comma")
ExpectedQuoteForKey == ParseJSONError("Expected '\"' for object key")
ExpectedColonAfterKey == ParseJSONError("Expected ':' after object key")
NoValueFound == ParseJSONError("No JSON value found")
LiteralMismatch(literal, text) ==
    [msg |-> "Expected {literal} but got {text}", literal |-> literal, text |-> text]

\* enum JSONValue
JString(s) == [tag |-> "String", s |-> s]
JNumber(n) == [tag |-> "Number", n |-> n]
JObject(pairs) == [tag |-> "Object", pairs |-> pairs]
JArray(items) == [tag |-> "Array", items |-> items]
JTrue == [tag |-> "True"]
JFalse == [tag |-> "False"]
JNull == [tag |-> "Null"]

----------------------------------------------------------------------------
(* char::is_whitespace, char::is_numeric over the characters of the model   *)

IsWhitespace(ch) == ch \in {" ", "\t", "\n", "\r"}

AsciiDigits == <<"0", "1", "2", "3", "4", "5", "6", "7", "8", "9">>

IsAsciiDigit(ch) == \E k \in 1..10 : AsciiDigits[k] = ch

\* The model's alphabets hold no non-ASCII numeric character, so is_numeric
\* is true of the ASCII digits only.
IsNumeric(ch) == IsAsciiDigit(ch)

DigitValue(ch) == (CHOOSE k \in 1..10 : AsciiDigits[k] = ch) - 1

----------------------------------------------------------------------------
(* skip_whitespace                                                          *)

RECURSIVE skip_whitespace(_, _)
skip_whitespace(cs, i) ==
    IF IsWhitespace(Get(cs, i)) THEN skip_whitespace(cs, i + 1) ELSE i

----------------------------------------------------------------------------
(* parse_json_string                                                        *)

StringEndNoLookBack(cs, i) == Get(cs, i) = Q

\* the test of the scan: an end quote is a quote not preceded by a backslash
StringEndAt(cs, i) == Get(cs, i) = Q /\ Get(cs, i - 1) # BS

\* the while loop: the final i and string_end_found
RECURSIVE string_scan(_, _)
string_scan(cs, i) ==
    IF Get(cs, i) = NoChar THEN [i |-> i, string_end_found |-> FALSE]
    ELSE IF StringEndAt(cs, i) THEN [i |-> i, string_end_found |-> TRUE]
    ELSE string_scan(cs, i + 1)

\* what follows the loop, r being the loop's final i and string_end_found
StringResult(cs, f, r) ==
    IF ~r.string_end_found THEN Err(MissingEndQuote)
    ELSE Ok(r.i, Slice(cs, f + 1, r.i))

parse_json_string(cs, f) == StringResult(cs, f, string_scan(cs, f + 1))

----------------------------------------------------------------------------
(* str::parse::<f64>: Sign? (Digit+ | Digit+ '.' Digit* | Digit* '.' Digit+)*)
(* Exp?, Exp ::= ('e'|'E') Sign? Digit+.  The "inf"/"nan" spellings need    *)
(* letters the number scan never consumes.  A value is kept as the          *)
(* normalised decimal m * 10^e (m not divisible by 10), which is exact for  *)
(* the short literals of the model; beyond the range of f64 it is +-inf or  *)
(* 0, and -0.0 == 0.0.                                                      *)

RECURSIVE DigitRunEnd(_, _)
DigitRunEnd(s, p) ==
    IF p <= Len(s) /\ IsAsciiDigit(s[p]) THEN DigitRunEnd(s, p + 1) ELSE p

RECURSIVE DigitsValue(_)
DigitsValue(ds) ==
    IF ds = <<>> THEN 0
    ELSE 10 * DigitsValue(SubSeq(ds, 1, Len(ds) - 1)) + DigitValue(ds[Len(ds)])

RECURSIVE DecimalDigits(_)
DecimalDigits(m) == IF m < 10 THEN 1 ELSE 1 + DecimalDigits(m \div 10)

RECURSIVE Normalise(_, _)
Normalise(m, e) ==
    IF m = 0 THEN [m |-> 0, e |-> 0, inf |-> FALSE]
    ELSE IF m % 10 = 0 THEN Normalise(m \div 10, e + 1)
    ELSE [m |-> m, e |-> e, inf |-> FALSE]

F64MaxDecade == 308
F64MinDecade == -324

F64(neg, m, e) ==
    LET n == Normalise(m, e)
        decade == DecimalDigits(n.m) - 1 + n.e
    IN  IF n.m = 0 THEN n
        ELSE IF decade > F64MaxDecade
             THEN [m |-> IF neg THEN -1 ELSE 1, e |-> 0, inf |-> TRUE]
        ELSE IF decade <= F64MinDecade THEN [m |-> 0, e |-> 0, inf |-> FALSE]
        ELSE [m |-> IF neg THEN -n.m ELSE n.m, e |-> n.e, inf |-> FALSE]

\* the exponent part, from position p of s on; int and frac are the digit runs
\* around the decimal point
ParseExponent(s, neg, int, frac, p, expSigned, q) ==
    IF p > Len(s)
    THEN [ok |-> TRUE, val |-> F64(neg, DigitsValue(int \o frac), 0 - Len(frac))]
    ELSE IF ~(s[p] \in {"e", "E"}) \/ q = Len(s) + 1 \/ DigitRunEnd(s, q) # Len(s) + 1
    THEN [ok |-> FALSE]
    ELSE [ok |-> TRUE,
          val |-> F64(neg, DigitsValue(int \o frac),
                      (IF expSigned /\ s[p + 1] = "-"
                       THEN 0 - DigitsValue(SubSeq(s, q, Len(s)))
                       ELSE DigitsValue(SubSeq(s, q, Len(s)))) - Len(frac))]

ParseAfterMantissa(s, neg, int, frac, p) ==
    IF Len(int) + Len(frac) = 0 THEN [ok |-> FALSE]
    ELSE ParseExponent(s, neg, int, frac, p,
                       p + 1 <= Len(s) /\ s[p + 1] \in {"+", "-"},
                       IF p + 1 <= Len(s) /\ s[p + 1] \in {"+", "-"} THEN p + 2 ELSE p + 1)

ParseFraction(s, neg, p1, p2, p3) ==
    ParseAfterMantissa(s, neg, SubSeq(s, p1, p2 - 1), SubSeq(s, p2 + 1, p3 - 1),
                       IF p3 > p2 THEN p3 ELSE p2)

ParseMantissa(s, neg, p1, p2) ==
    ParseFraction(s, neg, p1, p2,
                  IF p2 <= Len(s) /\ s[p2] = "." THEN DigitRunEnd(s, p2 + 1) ELSE p2)

ParseSigned(s, neg, p1) == ParseMantissa(s, neg, p1, DigitRunEnd(s, p1))

ParseF64(s) ==
    IF Len(s) >= 1 /\ s[1] \in {"+", "-"}
    THEN ParseSigned(s, s[1] = "-", 2)
    ELSE ParseSigned(s, FALSE, 1)

----------------------------------------------------------------------------
(* parse_json_number                                                        *)

\* the while loop: the final i
RECURSIVE number_scan(_, _, _, _, _)
number_scan(cs, i, parsing_exponent, found_decimal, found_exponent_sign) ==
    LET ch == Get(cs, i) IN
    IF ch = NoChar THEN i
    ELSE IF IsNumeric(ch)
         THEN number_scan(cs, i + 1, parsing_exponent, found_decimal, found_exponent_sign)
    ELSE IF ch = "." /\ ~found_decimal /\ ~parsing_exponent
         THEN number_scan(cs, i + 1, parsing_exponent, TRUE, found_exponent_sign)
    ELSE IF ch = "e" \/ ch = "E"
         THEN number_scan(cs, i + 1, TRUE, found_decimal, found_exponent_sign)
    ELSE IF ch = "+" \/ (ch = "-" /\ parsing_exponent /\ ~found_exponent_sign)
         THEN number_scan(cs, i + 1, parsing_exponent, found_decimal, TRUE)
    ELSE i

\* the value of i when the loop is left
NumberScanEnd(cs, f) ==
    number_scan(cs, IF Get(cs, f) = "-" THEN f + 1 ELSE f, FALSE, FALSE, FALSE)

NumberEndOffByOne(i) == i - 2

\* the returned offset: that of the last consumed character
NumberEnd(i) == i - 1

\* map_err(..)? and the return, parsed being the outcome of str::parse
NumberResult(i, parsed) ==
    IF ~parsed.ok THEN Err(InvalidNumber)
    ELSE Ok(NumberEnd(i), parsed.val)

NumberParsed(cs, f, i) == NumberResult(i, ParseF64(Slice(cs, f, i)))

parse_json_number(cs, f) == NumberParsed(cs, f, NumberScanEnd(cs, f))

----------------------------------------------------------------------------
(* parse_json_literal                                                       *)

Min(a, b) == IF a < b THEN a ELSE b

LiteralResult(f, literal, text) ==
    IF text = literal THEN OkEnd(f + Len(literal) - 1)
    ELSE Err(LiteralMismatch(literal, text))

\* text: the characters of from..from + literal.len() that exist
parse_json_literal(cs, f, literal) ==
    LiteralResult(f, literal, Slice(cs, Min(f, Len(cs)), Min(f + Len(literal), Len(cs))))

LitNull == <<"n", "u", "l", "l">>
LitTrue == <<"t", "r", "u", "e">>
LitFalse == <<"f", "a", "l", "s", "e">>

----------------------------------------------------------------------------
(* parse_json_array: the loop body as one iteration, array_loop as the loop *)

RECURSIVE parse_json_value(_, _)

\* what one evaluation of a loop body yields: leave the function with res,
\* or go round again with the locals s
Return(res) == [brk |-> TRUE, res |-> res, st |-> <<>>]
Continue(s) == [brk |-> FALSE, res |-> <<>>, st |-> s]

ArrayLocals(i, output, should_end, ok_to_end) ==
    [i |-> i, output |-> output, array_should_end |-> should_end,
     is_ok_for_array_to_end |-> ok_to_end]

\* the locals when the while loop is first reached
ArrayInit(cs, f) == ArrayLocals(skip_whitespace(cs, f + 1), <<>>, FALSE, TRUE)

ArrayCheckNoComma(ch, s) ==
    IF ch = "]" /\ s.is_ok_for_array_to_end THEN "break"
    ELSE IF s.array_should_end THEN "expected_closing_bracket"
    ELSE "value"

\* the if / else if chain at the head of the loop body
ArrayCheck(ch, s) ==
    IF ch = "]" /\ s.is_ok_for_array_to_end THEN "break"
    ELSE IF s.array_should_end THEN "expected_closing_bracket"
    ELSE IF ch = "," THEN "unexpected_comma"
    ELSE "value"

ArraySeparatorMayEnd(cs, i, output) ==
    IF Get(cs, i) = ","
    THEN ArrayLocals(skip_whitespace(cs, i + 1), output, FALSE, TRUE)
    ELSE ArrayLocals(i, output, TRUE, TRUE)

ArraySeparatorNoEnd(cs, i, output) ==
    IF Get(cs, i) = ","
    THEN ArrayLocals(skip_whitespace(cs, i + 1), output, FALSE, FALSE)
    ELSE ArrayLocals(i, output, FALSE, TRUE)

\* after an element: a comma asks for another element, anything else for the end
ArraySeparator(cs, i, output) ==
    IF Get(cs, i) = ","
    THEN ArrayLocals(skip_whitespace(cs, i + 1), output, FALSE, FALSE)
    ELSE ArrayLocals(i, output, TRUE, TRUE)

\* the rest of the body once the element has been parsed (`?` passes an error on)
ArrayElement(cs, s, r) ==
    IF ~r.ok THEN Return(r)
    ELSE Continue(ArraySeparator(cs, skip_whitespace(cs, r.end + 1), Append(s.output, r.val)))

ArrayDispatch(cs, s, i, c) ==
    IF c = "break" THEN Return(Ok(i, s.output))
    ELSE IF c = "expected_closing_bracket" THEN Return(Err(ExpectedClosingBracket))
    ELSE IF c = "unexpected_comma" THEN Return(Err(UnexpectedComma))
    ELSE ArrayElement(cs, s, parse_json_value(cs, i))

\* the while condition and one pass through the loop body; ch is read before
\* the whitespace at i is skipped
ArrayBody(cs, s) ==
    IF Get(cs, s.i) = NoChar THEN Return(Ok(s.i, s.output))
    ELSE ArrayDispatch(cs, s, skip_whitespace(cs, s.i), ArrayCheck(Get(cs, s.i), s))

RECURSIVE array_loop(_, _)

ArrayNext(cs, b) == IF b.brk THEN b.res ELSE array_loop(cs, b.st)

array_loop(cs, s) == ArrayNext(cs, ArrayBody(cs, s))

parse_json_array(cs, f) == array_loop(cs, ArrayInit(cs, f))

----------------------------------------------------------------------------
(* parse_json_object                                                        *)

ObjectLocals(i, output, should_end, ok_to_end) ==
    [i |-> i, output |-> output, object_should_end |-> should_end,
     is_ok_for_object_to_end |-> ok_to_end]

ObjectInit(cs, f) == ObjectLocals(skip_whitespace(cs, f + 1), <<>>, FALSE, TRUE)

ObjectCheck(ch, s) ==
    IF ch = "}" /\ s.is_ok_for_object_to_end THEN "break"
    ELSE IF s.object_should_end THEN "expected_closing_brace"
    ELSE IF ch = "," THEN "unexpected_comma"
    ELSE "member"

ObjectSeparator(cs, i, output) ==
    IF Get(cs, i) = ","
    THEN ObjectLocals(skip_whitespace(cs, i + 1), output, FALSE, FALSE)
    ELSE ObjectLocals(i, output, TRUE, TRUE)

ObjectPushOverwrite(output, key_string, parsed_value) ==
    IF \E k \in 1..Len(output) : output[k][1] = key_string
    THEN [k \in 1..Len(output) |->
            IF output[k][1] = key_string THEN <<key_string, parsed_value>> ELSE output[k]]
    ELSE Append(output, <<key_string, parsed_value>>)

\* output.push((key_string, parsed_value))
ObjectPush(output, key_string, parsed_value) ==
    Append(output, <<key_string, parsed_value>>)

\* the rest of the body once the value has been parsed
ObjectValue(cs, s, key, r) ==
    IF ~r.ok THEN Return(r)
    ELSE Continue(ObjectSeparator(cs, skip_whitespace(cs, r.end + 1),
                                  ObjectPush(s.output, key.val, r.val)))

\* the colon at j, then the value
ObjectColon(cs, s, key, j) ==
    IF Get(cs, j) # ":" THEN Return(Err(ExpectedColonAfterKey))
    ELSE ObjectValue(cs, s, key, parse_json_value(cs, skip_whitespace(cs, j + 1)))

ObjectKey(cs, s, key) ==
    IF ~key.ok THEN Return(key)
    ELSE ObjectColon(cs, s, key, skip_whitespace(cs, key.end + 1))

ObjectDispatch(cs, s, i, c) ==
    IF c = "break" THEN Return(Ok(i, s.output))
    ELSE IF c = "expected_closing_brace" THEN Return(Err(ExpectedClosingBrace))
    ELSE IF c = "unexpected_comma" THEN Return(Err(UnexpectedComma))
    ELSE IF Get(cs, i) # Q THEN Return(Err(ExpectedQuoteForKey))
    ELSE ObjectKey(cs, s, parse_json_string(cs, i))

ObjectBody(cs, s) ==
    IF Get(cs, s.i) = NoChar THEN Return(Ok(s.i, s.output))
    ELSE ObjectDispatch(cs, s, skip_whitespace(cs, s.i), ObjectCheck(Get(cs, s.i), s))

RECURSIVE object_loop(_, _)

ObjectNext(cs, b) == IF b.brk THEN b.res ELSE object_loop(cs, b.st)

object_loop(cs, s) == ObjectNext(cs, ObjectBody(cs, s))

parse_json_object(cs, f) == object_loop(cs, ObjectInit(cs, f))

----------------------------------------------------------------------------
(* parse_json_value, parse_json                                             *)

ValueStartNoSkip(cs, f) == f

\* the offset of the lookahead character
ValueStart(cs, f) == skip_whitespace(cs, f)

\* an arm of the match: the scanner's result r as (end_index, variant),
\* an error passed on (`?`)
Arm(r, variant) == IF r.ok THEN Ok(r.end, variant) ELSE r
StringArm(r) == IF r.ok THEN Ok(r.end, JString(r.val)) ELSE r
NumberArm(r) == IF r.ok THEN Ok(r.end, JNumber(r.val)) ELSE r
ArrayArm(r) == IF r.ok THEN Ok(r.end, JArray(r.val)) ELSE r
ObjectArm(r) == IF r.ok THEN Ok(r.end, JObject(r.val)) ELSE r

\* match ch { .. } on the lookahead at i
ValueMatch(cs, i, ch) ==
    IF ch = Q THEN StringArm(parse_json_string(cs, i))
    ELSE IF ch = "n" THEN Arm(parse_json_literal(cs, i, LitNull), JNull)
    ELSE IF ch = "t" THEN Arm(parse_json_literal(cs, i, LitTrue), JTrue)
    ELSE IF ch = "f" THEN Arm(parse_json_literal(cs, i, LitFalse), JFalse)
    ELSE IF ch # NoChar /\ (IsNumeric(ch) \/ ch = "-")
         THEN NumberArm(parse_json_number(cs, i))
    ELSE IF ch = "[" THEN ArrayArm(parse_json_array(cs, i))
    ELSE IF ch = "{" THEN ObjectArm(parse_json_object(cs, i))
    ELSE Err(NoValueFound)

\* the whitespace skipped from value_end_index, and the return
ValueResult(cs, m) == IF ~m.ok THEN m ELSE Ok(skip_whitespace(cs, m.end), m.val)

ValueAt(cs, i) == ValueResult(cs, ValueMatch(cs, i, Get(cs, i)))

parse_json_value(cs, f) == ValueAt(cs, ValueStart(cs, f))

ParseJsonResult(r) == IF r.ok THEN OkValue(r.val) ELSE r

parse_json(cs) == ParseJsonResult(parse_json_value(cs, 0))

----------------------------------------------------------------------------
(* The inputs: every sequence of at most Max..Toks chunks of a family's     *)
(* alphabet; chars is the concatenation of the chunks                       *)

RECURSIVE Flatten(_)
Flatten(toks) == IF toks = <<>> THEN <<>> ELSE Head(toks) \o Flatten(Tail(toks))

SeqsUpTo(T, n) == UNION {[1..k -> T] : k \in 0..n}

tSpace == <<" ">>
tNewline == <<"\n">>
tComma == <<",">>
tOpenBracket == <<"[">>
tCloseBracket == <<"]">>
tOpenBrace == <<"{">>
tCloseBrace == <<"}">>
tOne == <<"1">>
tPlus == <<"+">>
tNull == LitNull
tStringA == <<Q, "a", Q>>
tEmptyObject == <<"{", "}">>
\* object members: "a":1   "b" :[1]   and, its key holding an escaped quote, "\"":"x"
tPairA1 == <<Q, "a", Q, ":", "1">>
tPairBArr == <<Q, "b", Q, " ", ":", "[", "1", "]">>
tPairEsc == <<Q, BS, Q, Q, ":", Q, "x", Q>>

StrToks == {<<Q>>, <<BS>>, <<"a">>}
NumToks == {<<"1">>, <<"0">>, <<"-">>, <<"+">>, <<".">>, <<"e">>, <<",">>}
ArrToks == {tOpenBracket, tCloseBracket, tComma, tSpace, tOne, tPlus, tStringA}
PairToks == {tPairA1, tPairBArr, tPairEsc}
ObjToks == {tOpenBrace, tCloseBrace, tComma, tSpace, tStringA} \cup PairToks
JsonToks == {tSpace, tNewline, tOpenBracket, tCloseBracket, tOne, tPlus,
             tNull, tStringA, tEmptyObject}

StringInputs == {<<<<Q>>>> \o r : r \in SeqsUpTo(StrToks, MaxStrToks - 1)}
NumberInputs == SeqsUpTo(NumToks, MaxNumToks)
ArrayInputs == {<<tOpenBracket>> \o r : r \in SeqsUpTo(ArrToks, MaxArrToks - 1)}
ObjectInputs == {<<tOpenBrace>> \o r : r \in SeqsUpTo(ObjToks, MaxObjToks - 1)}
JsonInputs == SeqsUpTo(JsonToks, MaxJsonToks)

Pending == [pending |-> TRUE]
NoLocals == [none |-> TRUE]

InitWith(inputs) ==
    /\ string \in inputs
    /\ chars = Flatten(string)
    /\ pc = "idle"
    /\ fn = ""
    /\ from = 0
    /\ st = NoLocals
    /\ ret = Pending

InitString == InitWith(StringInputs)
InitNumber == InitWith(NumberInputs)
InitContainer == InitWith(ArrayInputs \cup ObjectInputs)
InitJson == InitWith(JsonInputs)
Init == InitWith(StringInputs \cup NumberInputs \cup ArrayInputs \cup ObjectInputs
                 \cup JsonInputs)

----------------------------------------------------------------------------
(* The calls.  A scanner is called where its first character stands, as the *)
(* dispatcher and the tests call it.                                        *)

\* the offsets a call may start at: the chunk boundaries of the input
Offsets == {Len(Flatten(SubSeq(string, 1, k))) : k \in 0..Len(string)}

Finish(name, f, locals, result) ==
    /\ pc = "idle"
    /\ pc' = "done"
    /\ fn' = name
    /\ from' = f
    /\ st' = locals
    /\ ret' = result
    /\ UNCHANGED <<string, chars>>

Enter(name, f, locals) ==
    /\ pc = "idle"
    /\ pc' = "loop"
    /\ fn' = name
    /\ from' = f
    /\ st' = locals
    /\ UNCHANGED <<string, chars, ret>>

\* b: what one evaluation of the loop body yields
Iterate(b) ==
    /\ pc' = IF b.brk THEN "done" ELSE "loop"
    /\ st' = IF b.brk THEN st ELSE b.st
    /\ ret' = IF b.brk THEN b.res ELSE ret
    /\ UNCHANGED <<string, chars, fn, from>>

SkipWhitespaceCall(f) ==
    Finish("skip_whitespace", f, NoLocals, OkEnd(skip_whitespace(chars, f)))

ParseJsonStringCall(f) ==
    /\ Get(chars, f) = Q
    /\ Finish("parse_json_string", f, NoLocals, parse_json_string(chars, f))

ParseJsonNumberCall(f) ==
    /\ Get(chars, f) # NoChar
    /\ IsNumeric(Get(chars, f)) \/ Get(chars, f) = "-"
    /\ Finish("parse_json_number", f, [i |-> NumberScanEnd(chars, f)],
              parse_json_number(chars, f))

ParseJsonLiteralCall(f, literal) ==
    /\ Get(chars, f) = literal[1]
    /\ Finish("parse_json_literal", f, NoLocals, parse_json_literal(chars, f, literal))

ParseJsonArrayEnter(f) ==
    /\ Get(chars, f) = "["
    /\ Enter("parse_json_array", f, ArrayInit(chars, f))

\* one evaluation of the while condition and, if it holds, of the loop body
ParseJsonArrayIterate ==
    /\ pc = "loop"
    /\ fn = "parse_json_array"
    /\ Iterate(ArrayBody(chars, st))

ParseJsonObjectEnter(f) ==
    /\ Get(chars, f) = "{"
    /\ Enter("parse_json_object", f, ObjectInit(chars, f))

ParseJsonObjectIterate ==
    /\ pc = "loop"
    /\ fn = "parse_json_object"
    /\ Iterate(ObjectBody(chars, st))

ParseJsonValueCall(f) ==
    Finish("parse_json_value", f, NoLocals, parse_json_value(chars, f))

ParseJsonCall ==
    Finish("parse_json", 0, NoLocals, parse_json(chars))

NextString == \E f \in Offsets : ParseJsonStringCall(f)

NextNumber == \E f \in Offsets : ParseJsonNumberCall(f)

NextContainer ==
    \/ \E f \in Offsets : ParseJsonArrayEnter(f)
    \/ ParseJsonArrayIterate
    \/ \E f \in Offsets : ParseJsonObjectEnter(f)
    \/ ParseJsonObjectIterate
    \/ \E f \in Offsets : ParseJsonValueCall(f)

NextJson ==
    \/ ParseJsonCall
    \/ \E f \in Offsets : SkipWhitespaceCall(f)
    \/ \E f \in Offsets, literal \in {LitNull, LitTrue, LitFalse} :
          ParseJsonLiteralCall(f, literal)

Next == NextString \/ NextNumber \/ NextContainer \/ NextJson

SpecString == InitString /\ [][NextString]_vars
SpecNumber == InitNumber /\ [][NextNumber]_vars
SpecContainer == InitContainer /\ [][NextContainer]_vars
SpecJson == InitJson /\ [][NextJson]_vars
Spec == Init /\ [][Next]_vars

Done(name) == pc = "done" /\ fn = name

----------------------------------------------------------------------------
(* What the claims speak of, read off the chunks of the input rather than   *)
(* computed by the parser                                                   *)

WsToks == {tSpace, tNewline}

\* the index in string of the chunk that starts at offset f
ChunkAt(f) == CHOOSE k \in 1..(Len(string) + 1) : Len(Flatten(SubSeq(string, 1, k - 1))) = f

\* the chunks from the one at offset f on
ChunksFrom(f) == SubSeq(string, ChunkAt(f), Len(string))

\* The shape of a bracketed text: toks[1] is the opener; the walk classifies
\* the text at the first chunk that decides it.  where: "first" after the
\* opener, "after_elem" after an element, "after_comma" after a separator.
\* A chunk "1" or "+" right after a chunk "1" is scanned as part of that number
\* (the number scan takes a '+' wherever it stands), so no element has been
\* parsed yet and the walk does not judge the text.
RECURSIVE Walk(_, _, _, _, _, _)
Walk(toks, k, where, items, close, elems) ==
    IF k > Len(toks) THEN [kind |-> "unclosed", items |-> items]
    ELSE IF toks[k] \in WsToks THEN Walk(toks, k + 1, where, items, close, elems)
    ELSE IF where = "after_elem"
         THEN IF toks[k] = tComma THEN Walk(toks, k + 1, "after_comma", items, close, elems)
              ELSE IF toks[k] = close THEN [kind |-> "closed", items |-> items]
              ELSE IF toks[k] \in {tOne, tPlus} /\ toks[k - 1] = tOne
                   THEN [kind |-> "other", items |-> items]
              ELSE [kind |-> "missing_comma", items |-> items]
    ELSE IF toks[k] = tComma
         THEN [kind |-> IF where = "first" THEN "leading_comma" ELSE "double_comma",
               items |-> items]
    ELSE IF toks[k] = close
         THEN [kind |-> IF where = "first" THEN "closed" ELSE "trailing_comma",
               items |-> items]
    ELSE IF toks[k] \in elems
         THEN Walk(toks, k + 1, "after_elem", Append(items, toks[k]), close, elems)
    ELSE [kind |-> "other", items |-> items]

ArrayShape(f) == Walk(ChunksFrom(f), 2, "first", <<>>, tCloseBracket, {tOne, tStringA})
ObjectShape(f) == Walk(ChunksFrom(f), 2, "first", <<>>, tCloseBrace, PairToks)

\* the (key, value) pair an object member chunk spells
PairOf(tok) ==
    IF tok = tPairA1 THEN <<<<"a">>, JNumber([m |-> 1, e |-> 0, inf |-> FALSE])>>
    ELSE IF tok = tPairBArr
         THEN <<<<"b">>, JArray(<<JNumber([m |-> 1, e |-> 0, inf |-> FALSE])>>)>>
    ELSE <<<<BS, Q>>, JString(<<"x">>)>>

PairsOf(items) == [k \in 1..Len(items) |-> PairOf(items[k])]

\* the last character before offset i that is not whitespace
RECURSIVE LastNonWsBefore(_, _)
LastNonWsBefore(cs, i) ==
    IF i <= 0 THEN NoChar
    ELSE IF IsWhitespace(Get(cs, i - 1)) THEN LastNonWsBefore(cs, i - 1)
    ELSE Get(cs, i - 1)

\* string without its leading and its trailing whitespace chunks
RECURSIVE StripLeft(_)
StripLeft(toks) ==
    IF toks # <<>> /\ Head(toks) \in WsToks THEN StripLeft(Tail(toks)) ELSE toks

RECURSIVE StripRight(_)
StripRight(toks) ==
    IF toks # <<>> /\ toks[Len(toks)] \in WsToks
    THEN StripRight(SubSeq(toks, 1, Len(toks) - 1)) ELSE toks

Strip(toks) == StripRight(StripLeft(toks))

SameOutcome(r1, r2) == r1.ok = r2.ok /\ (r1.ok => r1.val = r2.val)

----------------------------------------------------------------------------
(* C1: a complete JSON value followed by text whose first character cannot  *)
(* continue it parses to that value: parse_json gives Ok with the value of  *)
(* the leading text alone, whatever follows.                                 *)

CompleteValueToks == {tOne, tNull, tStringA, tEmptyObject}

\* under the JSON grammar only a number can be continued: by a digit here
CanContinue(v, next) == v = tOne /\ next = tOne

C1_TrailingTextIgnored ==
    (/\ Done("parse_json")
     /\ Len(string) >= 2
     /\ string[1] \in CompleteValueToks
     /\ ~CanContinue(string[1], string[2]))
    => (ret.ok /\ ret = parse_json(string[1]))

----------------------------------------------------------------------------
(* C2: leading and trailing whitespace changes nothing: parse_json of a     *)
(* padded text succeeds exactly when parse_json of the text without the     *)
(* padding does, with an equal value.                                        *)

C2_WhitespacePadding ==
    Done("parse_json") => SameOutcome(ret, parse_json(Flatten(Strip(string))))

C2_Witness ==
    /\ Done("parse_json")
    /\ Len(string) >= 3
    /\ string[1] = tSpace
    /\ string[Len(string)] = tNewline
    /\ ret = OkValue(JArray(<<>>))

----------------------------------------------------------------------------
(* C3: a comma followed (after optional whitespace) by the closing bracket  *)
(* is rejected: parse_json_array fails with "No JSON value found" and       *)
(* parse_json_object fails with an error; neither returns what it had       *)
(* collected.                                                                *)

C3_TrailingCommaRejected ==
    /\ (Done("parse_json_array") /\ ArrayShape(from).kind = "trailing_comma")
         => ret = Err(NoValueFound)
    /\ (/\ Done("parse_json_array")
        /\ ~st.is_ok_for_array_to_end
        /\ Get(chars, st.i) = "]")
         => ret = Err(NoValueFound)
    /\ (Done("parse_json_object") /\ ObjectShape(from).kind = "trailing_comma")
         => ~ret.ok
    /\ (/\ Done("parse_json_object")
        /\ ~st.is_ok_for_object_to_end
        /\ Get(chars, st.i) = "}")
         => ~ret.ok

C3_Witness ==
    /\ Done("parse_json_array")
    /\ ArrayShape(from).kind = "trailing_comma"
    /\ Len(st.output) >= 1
    /\ tSpace \in {string[k] : k \in 1..Len(string)}
    /\ ret = Err(NoValueFound)

----------------------------------------------------------------------------
(* C4: where an element is expected (after the opener or after a separator  *)
(* comma) and the next character that is not whitespace is a comma, the     *)
(* array parser and the object parser fail with "Unexpected comma".         *)

C4_UnexpectedComma ==
    /\ (/\ Done("parse_json_array")
        /\ ArrayShape(from).kind \in {"leading_comma", "double_comma"})
         => ret = Err(UnexpectedComma)
    /\ (/\ Done("parse_json_array")
        /\ ~st.array_should_end
        /\ Get(chars, st.i) = ",")
         => ret = Err(UnexpectedComma)
    /\ (/\ Done("parse_json_object")
        /\ ObjectShape(from).kind \in {"leading_comma", "double_comma"})
         => ret = Err(UnexpectedComma)
    /\ (/\ Done("parse_json_object")
        /\ ~st.object_should_end
        /\ Get(chars, st.i) = ",")
         => ret = Err(UnexpectedComma)

C4_Witness ==
    /\ Done("parse_json_array")
    /\ ArrayShape(from).kind = "double_comma"
    /\ Len(st.output) >= 1
    /\ ret = Err(UnexpectedComma)

----------------------------------------------------------------------------
(* C5: after an element (a member) that no comma follows, a next character  *)
(* other than the closing bracket (brace) makes the array (object) parser   *)
(* fail with "Expected ']' to end array" ("Expected '}' to end object"),    *)
(* and an element is only ever parsed first or right after a comma.         *)

----------------------------------------------------------------------------
(* C6: an object that parses holds one (key, value) pair per member of the  *)
(* text, in the order of the text, duplicate keys kept, every key as it     *)
(* stands between its quotes.                                                *)

C6_ObjectPairsInOrder ==
    /\ (Done("parse_json_object") /\ ret.ok)
         => /\ ObjectShape(from).kind \in {"closed", "unclosed"}
            /\ ret.val = PairsOf(ObjectShape(from).items)
    /\ (/\ Done("parse_json_value") /\ ret.ok
        /\ ChunkAt(from) <= Len(string) /\ string[ChunkAt(from)] = tOpenBrace)
         => ret.val = JObject(PairsOf(ObjectShape(from).items))

C6_Witness ==
    /\ Done("parse_json_object")
    /\ ret.ok
    /\ Get(chars, ret.end) = "}"
    /\ Len(ret.val) = 2
    /\ ret.val[1][1] = ret.val[2][1]

----------------------------------------------------------------------------
(* C7: when parse_json_array (parse_json_object) returns Ok((i, ..)), the   *)
(* character at i is the closing bracket (brace); an input that ends before *)
(* it is not accepted.                                                       *)

C7_EndsAtClosingDelimiter ==
    /\ (Done("parse_json_array") /\ ret.ok) => Get(chars, ret.end) = "]"
    /\ (Done("parse_json_object") /\ ret.ok) => Get(chars, ret.end) = "}"

----------------------------------------------------------------------------
(* C8: parse_json_number consumes the longest prefix that fits the grammar: *)
(* an optional leading '-', digits, at most one '.' and never after the     *)
(* exponent marker, at most one exponent marker, a sign only directly after *)
(* the marker; it stops at the first character that does not fit.           *)

RECURSIVE GrammarScan(_, _, _, _)
GrammarScan(cs, i, seenDot, seenExp) ==
    IF Get(cs, i) = NoChar THEN i
    ELSE IF IsAsciiDigit(Get(cs, i)) THEN GrammarScan(cs, i + 1, seenDot, seenExp)
    ELSE IF Get(cs, i) = "." /\ ~seenDot /\ ~seenExp THEN GrammarScan(cs, i + 1, TRUE, seenExp)
    ELSE IF Get(cs, i) \in {"e", "E"} /\ ~seenExp THEN GrammarScan(cs, i + 1, seenDot, TRUE)
    ELSE IF Get(cs, i) \in {"+", "-"} /\ Get(cs, i - 1) \in {"e", "E"}
         THEN GrammarScan(cs, i + 1, seenDot, seenExp)
    ELSE i

GrammarEnd(cs, f) == GrammarScan(cs, IF Get(cs, f) = "-" THEN f + 1 ELSE f, FALSE, FALSE)

C8_NumberScanFitsGrammar ==
    Done("parse_json_number") => st.i = GrammarEnd(chars, from)

----------------------------------------------------------------------------
(* C9: parse_json_string returns Ok((j, s)) for the smallest j > from with  *)
(* a quote at j and no backslash at j - 1, s being the characters between   *)
(* from and j as they stand; it fails with "Missing end quotes for string"  *)
(* exactly when there is no such j.                                          *)

EndQuotes(cs, f) ==
    {j \in (f + 1)..(Len(cs) - 1) : Get(cs, j) = Q /\ Get(cs, j - 1) # BS}

Least(S) == CHOOSE j \in S : \A k \in S : j <= k

----------------------------------------------------------------------------
(* C10: the parser makes progress: every iteration of the array loop and of *)
(* the object loop that goes round again has moved the offset forward, the  *)
(* number of elements collected stays below the length of the input, and a  *)
(* successful parse_json_value returns an end offset not before `from`.     *)

LoopAdvances == (pc = "loop" /\ pc' = "loop") => st'.i > st.i

LoopBounded == pc = "loop" => (st.i > from + Len(st.output) /\ from + Len(st.output) < Len(chars))

ValueEndsAfterStart == (Done("parse_json_value") /\ ret.ok) => ret.end >= from

C10_Progress == [][LoopAdvances]_vars /\ []LoopBounded /\ []ValueEndsAfterStart

C10_Witness ==
    /\ pc = "loop"
    /\ fn = "parse_json_object"
    /\ Len(st.output) = 2
    /\ st.i < Len(chars)

====
